---- MODULE Spec2Model ----
(***************************************************************************)
(* Nova Bank (src/App.tsx): the ledger store of the App component (users,  *)
(* transactions, currentUser) and the operations it exposes through        *)
(* BankContext: login, logout, registerUser, transferMoney, addCardToUser, *)
(* addLoanToUser, requestPaymentExtension.                                 *)
(*                                                                         *)
(* Representation.                                                         *)
(*   - A JS string that the code inspects (name, username, account number, *)
(*     card number, recipient identifier) is a sequence of one-character   *)
(*     strings, so toLowerCase, split(' ')[0] and slice(-4) are computed.  *)
(*   - Money is an integer number of cents.                                *)
(*   - A Date is a local calendar date [year, month (0-based), date]; the  *)
(*     ISO string stored in paymentDueDate denotes that same instant.      *)
(*   - now is the latest reading of the clock (Date.now(), new Date()), in  *)
(*     milliseconds since the page load; a reading is never below it.      *)
(*   - Math.random() draws are \E over the outcomes the code distinguishes.*)
(*   - Card keeps cardNumber, cardType and paymentDueDate; User omits      *)
(*     avatarUrl. No operation of App reads the omitted fields.            *)
(***************************************************************************)
EXTENDS Integers, Sequences, FiniteSets, TLC

\* ------------------------------------------------------------------------
\* Bounds of the model
\* ------------------------------------------------------------------------
MaxOps == 2        \* state-changing calls (register/transfer/card/loan/extension) per run
MaxClock == 1      \* largest reading of the clock (ms since load)
RandomStates == 16 \* Math.random() returns one of 0/16, 1/16 .. 15/16

\* ------------------------------------------------------------------------
\* Strings
\* ------------------------------------------------------------------------
UpperChars == <<"A","B","C","D","E","F","G","H","I","J","K","L","M",
                "N","O","P","Q","R","S","T","U","V","W","X","Y","Z">>
LowerChars == <<"a","b","c","d","e","f","g","h","i","j","k","l","m",
                "n","o","p","q","r","s","t","u","v","w","x","y","z">>

\* the lower-case form of each upper-case letter
LowerOf == [c \in {UpperChars[k] : k \in DOMAIN UpperChars} |->
               LowerChars[CHOOSE k \in DOMAIN UpperChars : UpperChars[k] = c]]

\* String.prototype.toLowerCase
toLowerCase(s) ==
    [i \in DOMAIN s |-> IF s[i] \in DOMAIN LowerOf THEN LowerOf[s[i]] ELSE s[i]]

\* s.split(' ')[0]: the characters before the first space (all of s if none)
FirstToken(s) ==
    IF \E i \in DOMAIN s : s[i] = " "
    THEN LET p == CHOOSE i \in DOMAIN s :
                    /\ s[i] = " "
                    /\ \A j \in 1..(i - 1) : s[j] # " "
         IN  SubSeq(s, 1, p - 1)
    ELSE s

\* s.slice(-4): the last four characters (all of s if shorter)
Last4(s) == IF Len(s) <= 4 THEN s ELSE SubSeq(s, Len(s) - 3, Len(s))

DigitChars == <<"0","1","2","3","4","5","6","7","8","9">>

\* String(n) for a natural number n, as in a template literal
RECURSIVE NumStr(_)
NumStr(n) ==
    IF n < 10 THEN <<DigitChars[n + 1]>>
    ELSE NumStr(n \div 10) \o <<DigitChars[(n % 10) + 1]>>

\* Array.prototype.findIndex, 1-based; 0 stands for -1
FindIndex(seq, P(_)) ==
    IF \E i \in DOMAIN seq : P(seq[i])
    THEN CHOOSE i \in DOMAIN seq : P(seq[i]) /\ \A j \in 1..(i - 1) : ~P(seq[j])
    ELSE 0

\* ------------------------------------------------------------------------
\* Dates
\* ------------------------------------------------------------------------
IsLeap(y) == (y % 4 = 0 /\ y % 100 # 0) \/ y % 400 = 0

\* a calendar without leap years
DaysInMonth_NoLeap(y, m) ==
    IF m = 1 THEN 28
    ELSE IF m \in {3, 5, 8, 10} THEN 30 ELSE 31

\* days in month m (0-based) of year y
DaysInMonth(y, m) ==
    IF m = 1 THEN (IF IsLeap(y) THEN 29 ELSE 28)
    ELSE IF m \in {3, 5, 8, 10} THEN 30 ELSE 31

\* new Date(year, month, date): month and date may overflow and are carried
RECURSIVE MakeDate(_, _, _)
MakeDate(y, m, d) ==
    IF m > 11 THEN MakeDate(y + 1, m - 12, d)
    ELSE IF d > DaysInMonth(y, m) THEN MakeDate(y, m + 1, d - DaysInMonth(y, m))
    ELSE [year |-> y, month |-> m, date |-> d]

\* d.setDate(d.getDate() + n)
AddDays(dt, n) == MakeDate(dt.year, dt.month, dt.date + n)

\* ------------------------------------------------------------------------
\* Seed data (constants.ts part of src/App.tsx)
\* ------------------------------------------------------------------------
EXTENSION_DAYS == 14
STARTING_BALANCE == 100000
CARD_DUE_DATE == 15
LOAN_DUE_DATE == 1

Alice_Johnson == <<"A","l","i","c","e"," ","J","o","h","n","s","o","n">>
Bob_Williams == <<"B","o","b"," ","W","i","l","l","i","a","m","s">>
Charlie_Brown == <<"C","h","a","r","l","i","e"," ","B","r","o","w","n">>
alice == <<"a","l","i","c","e">>
bob == <<"b","o","b">>
charlie == <<"c","h","a","r","l","i","e">>

\* the page is loaded in one of these months: [year, month (0-based)]
Todays == {[year |-> 2023, month |-> 10], [year |-> 2024, month |-> 0]}

\* a string of n copies of the character c
Rep(c, n) == [i \in 1..n |-> c]

\* generateAccountNumber(): ten random decimal digits; the draws kept here
AccountNumbers == {Rep("7", 10)}

\* generateMockCard(): the card type fixes the leading digit, the other 15
\* digits are random: here eleven times the digit mid, then 1111. The due
\* date is the 15th of the month after td.
MockCard(cardType, mid, td) ==
    [cardNumber |-> <<IF cardType = "Visa" THEN "4" ELSE "5">> \o Rep(mid, 11) \o Rep("1", 4),
     cardType |-> cardType,
     paymentDueDate |-> MakeDate(td.year, td.month + 1, CARD_DUE_DATE)]

\* the cards generateMockCard() may return after the page has loaded: the
\* draw kept here is a Mastercard whose last 4 digits are those of the seed
\* cards, so a user can hold two cards with the same last 4 digits
generateMockCard(td) == {MockCard(t, "9", td) : t \in {"Mastercard"}}

\* generateMockLoan(userId): a seed loan; one draw of its random fields
\* ($5000 at 12.00% over 24 months, 70% remaining, random suffix "0.5")
generateMockLoan(userId, td) ==
    [id |-> <<"l","o","a","n","-">> \o NumStr(userId) \o <<"-">> \o NumStr(0) \o <<"0",".","5">>,
     userId |-> userId,
     loanAmount |-> 500000,
     interestRate |-> 1200,
     termMonths |-> 24,
     monthlyPayment |-> 23537,
     remainingBalance |-> 350000,
     status |-> "Active",
     startDate |-> 0,
     paymentDueDate |-> MakeDate(td.year, td.month + 1, LOAN_DUE_DATE)]

\* the first three records of MOCK_USERS
MOCK_USERS(td) == <<
    [id |-> 1, name |-> Alice_Johnson, username |-> alice, pin |-> "1234",
     balance |-> 543050, savingsAccountNumber |-> Rep("1", 10),
     cards |-> <<MockCard("Visa", "0", td)>>,
     loans |-> <<generateMockLoan(1, td)>>],
    [id |-> 2, name |-> Bob_Williams, username |-> bob, pin |-> "5678",
     balance |-> 125075, savingsAccountNumber |-> Rep("2", 10),
     cards |-> <<MockCard("Mastercard", "0", td)>>,
     loans |-> <<>>],
    [id |-> 3, name |-> Charlie_Brown, username |-> charlie, pin |-> "1111",
     balance |-> 876520, savingsAccountNumber |-> Rep("3", 10),
     cards |-> <<MockCard("Visa", "3", td), MockCard("Mastercard", "3", td)>>,
     loans |-> <<generateMockLoan(3, td)>>] >>

DAY_MS == 86400000

MOCK_TRANSACTIONS == <<
    [id |-> <<"t","1">>, userId |-> 1, type |-> "debit", amount |-> 7550,
     description |-> <<"Grocery Shopping">>, timestamp |-> 0 - DAY_MS * 2,
     partyName |-> <<"SuperMart">>, category |-> "Groceries"],
    [id |-> <<"t","2">>, userId |-> 1, type |-> "credit", amount |-> 120000,
     description |-> <<"Paycheck Deposit">>, timestamp |-> 0 - DAY_MS * 5,
     partyName |-> <<"ACME Corp">>, category |-> "Income"],
    [id |-> <<"t","3">>, userId |-> 1, type |-> "debit", amount |-> 1200,
     description |-> <<"Coffee">>, timestamp |-> 0 - DAY_MS * 1,
     partyName |-> <<"The Daily Grind">>, category |-> "Food"],
    [id |-> <<"t","4">>, userId |-> 2, type |-> "credit", amount |-> 50000,
     description |-> <<"Birthday Gift">>, timestamp |-> 0 - DAY_MS * 10,
     partyName |-> Alice_Johnson, category |-> "Gifts"] >>

\* ------------------------------------------------------------------------
\* JSON.stringify / JSON.parse of the two collections
\* ------------------------------------------------------------------------
\* the value of each decimal digit
DigitOf == [c \in {DigitChars[k] : k \in DOMAIN DigitChars} |->
               (CHOOSE k \in DOMAIN DigitChars : DigitChars[k] = c) - 1]

\* the natural number written by the digits of s
RECURSIVE ParseNat(_)
ParseNat(s) ==
    IF Len(s) = 0 THEN 0
    ELSE ParseNat(SubSeq(s, 1, Len(s) - 1)) * 10 + DigitOf[s[Len(s)]]

\* JSON text of an integer (id, userId, termMonths)
IntText(n) == IF n < 0 THEN <<"-">> \o NumStr(0 - n) ELSE NumStr(n)

\* the integer that JSON.parse reads from text t
ParseInt(t) ==
    IF Len(t) > 0 /\ t[1] = "-" THEN 0 - ParseNat(Tail(t)) ELSE ParseNat(t)

\* JSON text that drops the fraction of the number
DecimalText_Whole(c) ==
    LET a == IF c < 0 THEN 0 - c ELSE c
    IN  (IF c < 0 THEN <<"-">> ELSE <<>>) \o NumStr(a \div 100)

\* JSON text of a number kept in hundredths (an amount of c cents, a rate of
\* c hundredths of a percent): 543050 is 5430.5, 23537 is 235.37, 100000 is 1000
DecimalText(c) ==
    LET a == IF c < 0 THEN 0 - c ELSE c
        frac == a % 100
    IN  (IF c < 0 THEN <<"-">> ELSE <<>>) \o NumStr(a \div 100) \o
        (IF frac = 0 THEN <<>>
         ELSE IF frac % 10 = 0 THEN <<".", DigitChars[(frac \div 10) + 1]>>
         ELSE <<".", DigitChars[(frac \div 10) + 1], DigitChars[(frac % 10) + 1]>>)

\* the number, in hundredths, that JSON.parse reads from text t
ParseDecimal(t) ==
    LET neg == Len(t) > 0 /\ t[1] = "-"
        body == IF neg THEN Tail(t) ELSE t
        dot == IF \E i \in DOMAIN body : body[i] = "."
               THEN CHOOSE i \in DOMAIN body : body[i] = "."
               ELSE 0
        whole == IF dot = 0 THEN body ELSE SubSeq(body, 1, dot - 1)
        frac == IF dot = 0 THEN <<>> ELSE SubSeq(body, dot + 1, Len(body))
        hundredths == ParseNat(whole) * 100 +
                      (IF Len(frac) = 1 THEN ParseNat(frac) * 10 ELSE ParseNat(frac))
    IN  IF neg THEN 0 - hundredths ELSE hundredths

\* JSON.stringify(users): every number becomes its text; strings (the ISO
\* dates among them) and the structure are written as they are
stringifyLoan(l) ==
    [l EXCEPT !.userId = IntText(l.userId),
              !.loanAmount = DecimalText(l.loanAmount),
              !.interestRate = DecimalText(l.interestRate),
              !.termMonths = IntText(l.termMonths),
              !.monthlyPayment = DecimalText(l.monthlyPayment),
              !.remainingBalance = DecimalText(l.remainingBalance)]

stringifyUsers(us) ==
    [i \in DOMAIN us |->
        [us[i] EXCEPT !.id = IntText(us[i].id),
                      !.balance = DecimalText(us[i].balance),
                      !.loans = [k \in DOMAIN us[i].loans |-> stringifyLoan(us[i].loans[k])]]]

\* JSON.parse of the users blob
parseLoan(l) ==
    [l EXCEPT !.userId = ParseInt(l.userId),
              !.loanAmount = ParseDecimal(l.loanAmount),
              !.interestRate = ParseDecimal(l.interestRate),
              !.termMonths = ParseInt(l.termMonths),
              !.monthlyPayment = ParseDecimal(l.monthlyPayment),
              !.remainingBalance = ParseDecimal(l.remainingBalance)]

parseUsers(blob) ==
    [i \in DOMAIN blob |->
        [blob[i] EXCEPT !.id = ParseInt(blob[i].id),
                        !.balance = ParseDecimal(blob[i].balance),
                        !.loans = [k \in DOMAIN blob[i].loans |-> parseLoan(blob[i].loans[k])]]]

\* JSON.stringify(transactions) and JSON.parse of the transactions blob
stringifyTransactions(txs) ==
    [i \in DOMAIN txs |->
        [txs[i] EXCEPT !.userId = IntText(txs[i].userId),
                       !.amount = DecimalText(txs[i].amount)]]

parseTransactions(blob) ==
    [i \in DOMAIN blob |->
        [blob[i] EXCEPT !.userId = ParseInt(blob[i].userId),
                        !.amount = ParseDecimal(blob[i].amount)]]

\* initialUsers(): the saved collection if there is one, else the seed
initialUsers(ls, td) ==
    IF ls.users # <<>> THEN parseUsers(ls.users[1]) ELSE MOCK_USERS(td)

\* initialTransactions()
initialTransactions(ls) ==
    IF ls.transactions # <<>> THEN parseTransactions(ls.transactions[1]) ELSE MOCK_TRANSACTIONS

\* ------------------------------------------------------------------------
\* State
\* ------------------------------------------------------------------------
VARIABLES
    users,          \* useState<User[]>
    transactions,   \* useState<Transaction[]>
    currentUser,    \* useState<User | null>: <<>> is null, <<u>> is the user u
    today,          \* the calendar month new Date() falls in
    now,            \* the latest reading of Date.now() / new Date()
    last,           \* the call that is returning: operation, arguments, returned
                    \* value; op = "idle" between two calls
    nOps,           \* number of state-changing calls so far
    localStorage,   \* the two saved blobs, 'gemini-bank-users' and
                    \* 'gemini-bank-transactions': <<>> is no item, <<b>> the item b
    gen             \* the locals of a generateMockCardTransactions call

vars == <<users, transactions, currentUser, today, now, last, nOps, localStorage, gen>>

\* the ledger: what the operations read and write
store == <<users, transactions, currentUser>>

\* what a call returns: ok is the boolean (the success field, or the bare
\* boolean of login and registerUser), msg stands for the message field ("" if
\* the returned value has none; "TypeError" if the call throws instead of
\* returning), payload for newCard, newLoan or newDueDate (<<>> if none)
Call(op, args, ok, msg, payload) ==
    [op |-> op, args |-> args, ok |-> ok, msg |-> msg, payload |-> payload]

Idle == Call("idle", <<>>, TRUE, "", <<>>)

\* the component has been constructed (useState initialisers) and is about to
\* render for the first time
Mount == Call("mount", <<>>, TRUE, "", <<>>)

\* no generateMockCardTransactions call is being followed
NotGenerating == [pc |-> "none"]

\* first visit: nothing is saved yet
Init ==
    /\ gen = NotGenerating
    /\ today \in Todays
    /\ localStorage = [users |-> <<>>, transactions |-> <<>>]
    /\ users = initialUsers(localStorage, today)
    /\ transactions = initialTransactions(localStorage)
    /\ currentUser = <<>>
    /\ now = 0
    /\ last = Mount
    /\ nOps = 0

\* ------------------------------------------------------------------------
\* Inputs of the calls
\* ------------------------------------------------------------------------
Alice == <<"A","l","i","c","e">>
ALICE == <<"A","L","I","C","E">>
CHARLIE == <<"C","H","A","R","L","I","E">>
zed == <<"z","e","d">>
amy == <<"a","m","y">>
nobody == <<"n","o","b","o","d","y">>

\* login(username, pin): a seed user (user name in capitals), the user that
\* registerUser may add, a wrong pin
LoginInputs == {<<CHARLIE, "1111">>, <<zed, "0000">>, <<bob, "1234">>}
\* registerUser(name, username, pin)
RegNames == {Alice}
RegUsernames == {ALICE, zed, amy}
RegPins == {"0000"}
\* transferMoney(recipientIdentifier, amount): a first name in lower case, a
\* full name, an account number, an unknown contact; amounts in cents
Identifiers == {alice, Bob_Williams, Rep("3", 10), nobody}
Amounts == {0, 10000, 600000}
\* the calls of transferMoney made: every identifier with $100, no amount to
\* an unknown contact, $6000 by first name and to an account number
TransferInputs ==
    {in \in Identifiers \X Amounts :
        \/ in[2] = 10000
        \/ in[2] = 0 /\ in[1] = nobody
        \/ in[2] = 600000 /\ in[1] \in {alice, Rep("3", 10)}}
\* addLoanToUser(details): loanAmount in cents ($500, and -$1500, which no
\* check of addLoanToUser refuses), loanTerm in months; the interest rate
\* drawn, in hundredths of a percent
LoanAmounts == {50000, 0 - 150000}
LoanTerms == {2}
Rates == {1200}
\* requestPaymentExtension(accountId, type)
AccountTypes == {"card", "loan", "savings"}

\* ------------------------------------------------------------------------
\* Operations
\* ------------------------------------------------------------------------

\* the values a reading of the clock may return: the time of the latest
\* reading, or a later millisecond
ClockReadings == {t \in now..MaxClock : t <= now + 1}

\* a login that does not look at the pin
LoginIndex_NoPin(us, username, pin) ==
    FindIndex(us, LAMBDA u : toLowerCase(u.username) = toLowerCase(username))

\* login: index in us of the user found for username and pin (0: none)
LoginIndex(us, username, pin) ==
    FindIndex(us, LAMBDA u :
        toLowerCase(u.username) = toLowerCase(username) /\ u.pin = pin)

\* login(username, pin)
Login ==
    /\ last = Idle
    /\ \E in \in LoginInputs :
        LET username == in[1]
            pin == in[2]
            i == LoginIndex(users, username, pin)
        IN  /\ IF i # 0
               THEN /\ currentUser' = <<users[i]>>
                    /\ last' = Call("login", <<username, pin>>, TRUE, "", <<>>)
               ELSE /\ currentUser' = currentUser
                    /\ last' = Call("login", <<username, pin>>, FALSE, "", <<>>)
            /\ UNCHANGED <<users, transactions, today, gen, localStorage, now, nOps>>

\* logout(); the auth screen it also resets is presentation state that no
\* operation of the store reads
Logout ==
    /\ last = Idle
    /\ currentUser' = <<>>
    /\ last' = Call("logout", <<>>, TRUE, "", <<>>)
    /\ UNCHANGED <<users, transactions, today, gen, localStorage, now, nOps>>

\* a username check that compares case-sensitively
UsernameTaken_CaseSensitive(us, username) ==
    FindIndex(us, LAMBDA u : u.username = username) # 0

\* registerUser: is the username taken (case-insensitive)?
UsernameTaken(us, username) ==
    FindIndex(us, LAMBDA u : toLowerCase(u.username) = toLowerCase(username)) # 0

\* a new user record numbered from zero
NewUser_IdFromZero(us, name, username, pin, acct, card) ==
    [id |-> Len(us), name |-> name, username |-> username, pin |-> pin,
     balance |-> STARTING_BALANCE, savingsAccountNumber |-> acct,
     cards |-> <<card>>, loans |-> <<>>]

\* a new user record that takes the id of the last user, without adding one
NewUser_IdOfLast(us, name, username, pin, acct, card) ==
    [id |-> us[Len(us)].id, name |-> name, username |-> username, pin |-> pin,
     balance |-> STARTING_BALANCE, savingsAccountNumber |-> acct,
     cards |-> <<card>>, loans |-> <<>>]

\* a new user record whose id skips a number
NewUser_IdGap(us, name, username, pin, acct, card) ==
    [id |-> Len(us) + 2, name |-> name, username |-> username, pin |-> pin,
     balance |-> STARTING_BALANCE, savingsAccountNumber |-> acct,
     cards |-> <<card>>, loans |-> <<>>]

\* registerUser: the new user record
NewUser(us, name, username, pin, acct, card) ==
    [id |-> Len(us) + 1, name |-> name, username |-> username, pin |-> pin,
     balance |-> STARTING_BALANCE, savingsAccountNumber |-> acct,
     cards |-> <<card>>, loans |-> <<>>]

\* registerUser(name, username, pin)
RegisterUser ==
    /\ last = Idle
    /\ \E name \in RegNames, username \in RegUsernames, pin \in RegPins,
       acct \in AccountNumbers, card \in generateMockCard(today) :
        IF UsernameTaken(users, username)
        THEN /\ last' = Call("registerUser", <<name, username, pin>>, FALSE, "", <<>>)
             /\ UNCHANGED <<users, transactions, currentUser, today, gen, localStorage, now, nOps>>
        ELSE LET newUser == NewUser(users, name, username, pin, acct, card)
             IN  /\ nOps < MaxOps
                 /\ users' = Append(users, newUser)
                 /\ currentUser' = <<newUser>>
                 /\ last' = Call("registerUser", <<name, username, pin>>, TRUE, "", <<>>)
                 /\ nOps' = nOps + 1
                 /\ UNCHANGED <<transactions, today, gen, localStorage, now>>

\* index of the user with the id of cu in us (0: not found)
UserIndex(us, cu) == FindIndex(us, LAMBDA u : u.id = cu.id)

\* transferMoney: index of the recipient in us (0: not found)
RecipientIndex(us, recipientIdentifier) ==
    FindIndex(us, LAMBDA u :
        \/ toLowerCase(u.name) = toLowerCase(recipientIdentifier)
        \/ toLowerCase(FirstToken(u.name)) = toLowerCase(recipientIdentifier)
        \/ u.savingsAccountNumber = recipientIdentifier)

\* the checks of transferMoney without the balance check
TransferCheck_NoFunds(cu, us, recipientIdentifier, amount) ==
    IF cu = <<>> THEN "NotLoggedIn"
    ELSE IF amount <= 0 THEN "NotPositive"
    ELSE LET si == UserIndex(us, cu[1])
             ri == RecipientIndex(us, recipientIdentifier)
         IN  IF ri = 0 THEN "NotFound"
             ELSE IF si = 0 THEN "TypeError"
             ELSE IF us[si].id = us[ri].id THEN "Self"
             ELSE "ok"

\* the checks of transferMoney without the test of recipientIndex === -1:
\* reading recipient.id then throws
TransferCheck_NoNotFound(cu, us, recipientIdentifier, amount) ==
    IF cu = <<>> THEN "NotLoggedIn"
    ELSE IF amount <= 0 THEN "NotPositive"
    ELSE LET si == UserIndex(us, cu[1])
             ri == RecipientIndex(us, recipientIdentifier)
         IN  IF ri = 0 \/ si = 0 THEN "TypeError"
             ELSE IF us[si].id = us[ri].id THEN "Self"
             ELSE IF us[si].balance < amount THEN "InsufficientFunds"
             ELSE "ok"

\* the checks of transferMoney with the balance check ahead of the
\* self-transfer check
TransferCheck_FundsFirst(cu, us, recipientIdentifier, amount) ==
    IF cu = <<>> THEN "NotLoggedIn"
    ELSE IF amount <= 0 THEN "NotPositive"
    ELSE LET si == UserIndex(us, cu[1])
             ri == RecipientIndex(us, recipientIdentifier)
         IN  IF ri = 0 THEN "NotFound"
             ELSE IF si = 0 THEN "TypeError"
             ELSE IF us[si].balance < amount THEN "InsufficientFunds"
             ELSE IF us[si].id = us[ri].id THEN "Self"
             ELSE "ok"

\* transferMoney: the first failing check, or "ok"
TransferCheck(cu, us, recipientIdentifier, amount) ==
    IF cu = <<>> THEN "NotLoggedIn"
    ELSE IF amount <= 0 THEN "NotPositive"
    ELSE LET si == UserIndex(us, cu[1])
             ri == RecipientIndex(us, recipientIdentifier)
         IN  IF ri = 0 THEN "NotFound"
             ELSE IF si = 0 THEN "TypeError"
             ELSE IF us[si].id = us[ri].id THEN "Self"
             ELSE IF us[si].balance < amount THEN "InsufficientFunds"
             ELSE "ok"

\* a transfer that debits the sender and never credits the recipient
TransferUsers_NoCredit(us, si, ri, amount) ==
    [us EXCEPT ![si] = [us[si] EXCEPT !.balance = us[si].balance - amount]]

\* a transfer that credits the recipient and never debits the sender
TransferUsers_NoDebit(us, si, ri, amount) ==
    [us EXCEPT ![ri] = [us[ri] EXCEPT !.balance = us[ri].balance + amount]]

\* transferMoney: newUsers
TransferUsers(us, si, ri, amount) ==
    LET debited == [us EXCEPT ![si] = [us[si] EXCEPT !.balance = us[si].balance - amount]]
    IN  [debited EXCEPT ![ri] = [us[ri] EXCEPT !.balance = us[ri].balance + amount]]

\* transferMoney: newTransactionId
TransferTxId(txs) == <<"t">> \o NumStr(Len(txs) + 1)

\* a transfer that records the debit of the sender only
TransferTxs_DebitOnly(txs, sender, recipient, amount, timestamp) ==
    << [id |-> TransferTxId(txs), userId |-> sender.id, type |-> "debit",
        amount |-> amount, description |-> <<"Payment to ">> \o recipient.name,
        timestamp |-> timestamp, partyName |-> recipient.name,
        category |-> "Transfers"] >>

\* transferMoney: senderTransaction and recipientTransaction
TransferTxs(txs, sender, recipient, amount, timestamp) ==
    << [id |-> TransferTxId(txs), userId |-> sender.id, type |-> "debit",
        amount |-> amount, description |-> <<"Payment to ">> \o recipient.name,
        timestamp |-> timestamp, partyName |-> recipient.name,
        category |-> "Transfers"],
       [id |-> TransferTxId(txs) \o <<"-","r">>, userId |-> recipient.id, type |-> "credit",
        amount |-> amount, description |-> <<"Payment from ">> \o sender.name,
        timestamp |-> timestamp, partyName |-> sender.name,
        category |-> "Transfers"] >>

\* transferMoney(recipientIdentifier, amount)
TransferMoney ==
    /\ last = Idle
    /\ \E in \in TransferInputs, timestamp \in ClockReadings :
        LET recipientIdentifier == in[1]
            amount == in[2]
            check == TransferCheck(currentUser, users, recipientIdentifier, amount)
            args == <<recipientIdentifier, amount>>
        IN  IF check # "ok"
            THEN /\ last' = Call("transferMoney", args, FALSE, check, <<>>)
                 /\ UNCHANGED <<users, transactions, currentUser, today, gen, localStorage, now, nOps>>
            ELSE LET si == UserIndex(users, currentUser[1])
                     ri == RecipientIndex(users, recipientIdentifier)
                     newUsers == TransferUsers(users, si, ri, amount)
                 IN  /\ nOps < MaxOps
                     /\ users' = newUsers
                     /\ currentUser' = <<newUsers[si]>>
                     /\ transactions' = transactions \o
                            TransferTxs(transactions, users[si], users[ri], amount, timestamp)
                     /\ now' = timestamp
                     /\ last' = Call("transferMoney", args, TRUE, "Success", <<>>)
                     /\ nOps' = nOps + 1
                     /\ UNCHANGED <<today, gen, localStorage>>

\* a card put at the head of the list
CardUser_Prepend(user, newCard) == [user EXCEPT !.cards = <<newCard>> \o user.cards]

\* addCardToUser: updatedUser
CardUser(user, newCard) == [user EXCEPT !.cards = Append(user.cards, newCard)]

\* addCardToUser(details)
AddCardToUser ==
    /\ last = Idle
    /\ \E approved \in BOOLEAN, newCard \in generateMockCard(today) :
        IF currentUser = <<>>
        THEN /\ last' = Call("addCardToUser", <<>>, FALSE, "NotLoggedIn", <<>>)
             /\ UNCHANGED <<users, transactions, currentUser, today, gen, localStorage, now, nOps>>
        ELSE LET userIndex == UserIndex(users, currentUser[1])
             IN  IF userIndex = 0
                 THEN /\ last' = Call("addCardToUser", <<>>, FALSE, "UserNotFound", <<>>)
                      /\ UNCHANGED <<users, transactions, currentUser, today, gen, localStorage, now, nOps>>
                 ELSE IF ~approved
                 THEN /\ last' = Call("addCardToUser", <<>>, FALSE, "Rejected", <<>>)
                      /\ UNCHANGED <<users, transactions, currentUser, today, gen, localStorage, now, nOps>>
                 ELSE LET updatedUser == CardUser(users[userIndex], newCard)
                      IN  /\ nOps < MaxOps
                          /\ users' = [users EXCEPT ![userIndex] = updatedUser]
                          /\ currentUser' = <<updatedUser>>
                          /\ last' = Call("addCardToUser", <<>>, TRUE, "Approved", <<newCard>>)
                          /\ nOps' = nOps + 1
                          /\ UNCHANGED <<transactions, today, gen, localStorage, now>>

RECURSIVE Pow(_, _)
Pow(b, e) == IF e = 0 THEN 1 ELSE b * Pow(b, e - 1)

RECURSIVE Gcd(_, _)
Gcd(a, b) == IF b = 0 THEN a ELSE Gcd(b, a % b)

\* num/den (den > 0) rounded to the nearest integer, a half away from zero:
\* toFixed(2) of an amount in cents
Round(num, den) ==
    LET a == IF num < 0 THEN 0 - num ELSE num
        f == a \div den
        m == IF 2 * (a % den) >= den THEN f + 1 ELSE f
    IN  IF num < 0 THEN 0 - m ELSE m

\* a payment of principal plus simple interest, spread over the term
MonthlyPayment_SimpleInterest(loanAmount, rate, loanTerm) ==
    LET g == Gcd(rate, 120000)
        p == rate \div g
        q == 120000 \div g
    IN  Round(loanAmount * (q + p * loanTerm), q * loanTerm)

\* addLoanToUser: monthlyPayment in cents for loanAmount in cents, the rate in
\* hundredths of a percent and the term in months. The monthly rate is
\* rate/120000 = p/q in lowest terms, so (1 + r)^n = (q + p)^n / q^n and
\* M = loanAmount * p * (q + p)^n / (q * ((q + p)^n - q^n)).
MonthlyPayment(loanAmount, rate, loanTerm) ==
    LET g == Gcd(rate, 120000)
        p == rate \div g
        q == 120000 \div g
        up == Pow(q + p, loanTerm)
    IN  Round(loanAmount * p * up, q * (up - Pow(q, loanTerm)))

\* addLoanToUser: `loan-${currentUser.id}-${Date.now()}`
LoanId(userId, ms) == <<"l","o","a","n","-">> \o NumStr(userId) \o <<"-">> \o NumStr(ms)

\* a new loan that starts partly repaid, as the seed loans do
NewLoan_Partial(userId, ms, loanAmount, rate, loanTerm, td) ==
    [id |-> LoanId(userId, ms),
     userId |-> userId,
     loanAmount |-> loanAmount,
     interestRate |-> rate,
     termMonths |-> loanTerm,
     monthlyPayment |-> MonthlyPayment(loanAmount, rate, loanTerm),
     remainingBalance |-> (loanAmount * 7) \div 10,
     status |-> "Active",
     startDate |-> ms,
     paymentDueDate |-> MakeDate(td.year, td.month + 1, LOAN_DUE_DATE)]

\* addLoanToUser: newLoan
NewLoan(userId, ms, loanAmount, rate, loanTerm, td) ==
    [id |-> LoanId(userId, ms),
     userId |-> userId,
     loanAmount |-> loanAmount,
     interestRate |-> rate,
     termMonths |-> loanTerm,
     monthlyPayment |-> MonthlyPayment(loanAmount, rate, loanTerm),
     remainingBalance |-> loanAmount,
     status |-> "Active",
     startDate |-> ms,
     paymentDueDate |-> MakeDate(td.year, td.month + 1, LOAN_DUE_DATE)]

\* addLoanToUser: loanCreditTransaction
LoanTx(newLoan, userId, loanAmount, timestamp) ==
    [id |-> <<"t","-","l","o","a","n","-">> \o newLoan.id, userId |-> userId,
     type |-> "credit", amount |-> loanAmount, description |-> <<"Loan Disbursement">>,
     timestamp |-> timestamp, partyName |-> <<"Nova Bank Loans">>, category |-> "Income"]

\* addLoanToUser(details)
AddLoanToUser ==
    /\ last = Idle
    /\ \E loanAmount \in LoanAmounts, loanTerm \in LoanTerms,
       approved \in BOOLEAN, rate \in Rates, ms \in ClockReadings :
        LET args == <<loanAmount, loanTerm>>
        IN  IF currentUser = <<>>
            THEN /\ last' = Call("addLoanToUser", args, FALSE, "NotLoggedIn", <<>>)
                 /\ UNCHANGED <<users, transactions, currentUser, today, gen, localStorage, now, nOps>>
            ELSE LET userIndex == UserIndex(users, currentUser[1])
                 IN  IF userIndex = 0
                     THEN /\ last' = Call("addLoanToUser", args, FALSE, "UserNotFound", <<>>)
                          /\ UNCHANGED <<users, transactions, currentUser, today, gen, localStorage, now, nOps>>
                     ELSE IF ~approved
                     THEN /\ last' = Call("addLoanToUser", args, FALSE, "Rejected", <<>>)
                          /\ UNCHANGED <<users, transactions, currentUser, today, gen, localStorage, now, nOps>>
                     ELSE LET newLoan == NewLoan(currentUser[1].id, ms, loanAmount,
                                                 rate, loanTerm, today)
                              updatedUser == [users[userIndex] EXCEPT
                                  !.balance = users[userIndex].balance + loanAmount,
                                  !.loans = Append(users[userIndex].loans, newLoan)]
                          IN  /\ nOps < MaxOps
                              /\ users' = [users EXCEPT ![userIndex] = updatedUser]
                              /\ currentUser' = <<updatedUser>>
                              /\ transactions' = Append(transactions,
                                     LoanTx(newLoan, currentUser[1].id, loanAmount, ms))
                              /\ now' = ms
                              /\ last' = Call("addLoanToUser", args, TRUE, "Approved", <<newLoan>>)
                              /\ nOps' = nOps + 1
                              /\ UNCHANGED <<today, gen, localStorage>>

\* requestPaymentExtension: the account ids tried: the last 4 digits of a
\* card and the id of every loan of the active user cu
AccountIds(us, cu) ==
    {Rep("1", 4)} \cup
    UNION {{us[i].loans[k].id : k \in DOMAIN us[i].loans} :
              i \in {i \in DOMAIN us : cu # <<>> /\ us[i].id = cu[1].id}}

\* requestPaymentExtension: the user with the due date of card cardIndex moved
ExtendCard(user, cardIndex) ==
    [user EXCEPT !.cards[cardIndex].paymentDueDate =
        AddDays(user.cards[cardIndex].paymentDueDate, EXTENSION_DAYS)]

\* requestPaymentExtension: the user with the due date of loan loanIndex moved
ExtendLoan(user, loanIndex) ==
    [user EXCEPT !.loans[loanIndex].paymentDueDate =
        AddDays(user.loans[loanIndex].paymentDueDate, EXTENSION_DAYS)]

\* an extension that moves the due date, in place, before the approval draw
ExtensionOutcome_MutateFirst(cu, us, accountId, type, approved) ==
    LET Result(ok, msg, newUsers, user, newDueDate) ==
            [ok |-> ok, msg |-> msg, users |-> newUsers, user |-> user,
             newDueDate |-> newDueDate]
        Fail(msg) == Result(FALSE, msg, us, <<>>, <<>>)
    IN  IF cu = <<>> THEN Fail("NotLoggedIn")
        ELSE LET userIndex == UserIndex(us, cu[1])
             IN  IF userIndex = 0 THEN Fail("UserNotFound")
                 ELSE IF type = "card"
                 THEN LET cardIndex == FindIndex(us[userIndex].cards,
                                LAMBDA c : Last4(c.cardNumber) = accountId)
                          updatedUser == ExtendCard(us[userIndex], cardIndex)
                          newUsers == [us EXCEPT ![userIndex] = updatedUser]
                      IN  IF cardIndex = 0 THEN Fail("CardNotFound")
                          ELSE IF ~approved
                          THEN Result(FALSE, "Rejected", newUsers, <<>>, <<>>)
                          ELSE Result(TRUE, type, newUsers, <<updatedUser>>,
                                      <<updatedUser.cards[cardIndex].paymentDueDate>>)
                 ELSE IF type = "loan"
                 THEN LET loanIndex == FindIndex(us[userIndex].loans,
                                LAMBDA l : l.id = accountId)
                          updatedUser == ExtendLoan(us[userIndex], loanIndex)
                          newUsers == [us EXCEPT ![userIndex] = updatedUser]
                      IN  IF loanIndex = 0 THEN Fail("LoanNotFound")
                          ELSE IF ~approved
                          THEN Result(FALSE, "Rejected", newUsers, <<>>, <<>>)
                          ELSE Result(TRUE, type, newUsers, <<updatedUser>>,
                                      <<updatedUser.loans[loanIndex].paymentDueDate>>)
                 ELSE IF ~approved THEN Fail("Rejected")
                 ELSE Fail("InvalidType")

\* an extension that takes every type other than 'card' for 'loan'
ExtensionOutcome_AnyTypeIsLoan(cu, us, accountId, type, approved) ==
    LET Result(ok, msg, newUsers, user, newDueDate) ==
            [ok |-> ok, msg |-> msg, users |-> newUsers, user |-> user,
             newDueDate |-> newDueDate]
        Fail(msg) == Result(FALSE, msg, us, <<>>, <<>>)
    IN  IF cu = <<>> THEN Fail("NotLoggedIn")
        ELSE LET userIndex == UserIndex(us, cu[1])
             IN  IF userIndex = 0 THEN Fail("UserNotFound")
                 ELSE IF ~approved THEN Fail("Rejected")
                 ELSE IF type = "card"
                 THEN LET cardIndex == FindIndex(us[userIndex].cards,
                                LAMBDA c : Last4(c.cardNumber) = accountId)
                          updatedUser == ExtendCard(us[userIndex], cardIndex)
                      IN  IF cardIndex = 0 THEN Fail("CardNotFound")
                          ELSE Result(TRUE, type, [us EXCEPT ![userIndex] = updatedUser],
                                      <<updatedUser>>,
                                      <<updatedUser.cards[cardIndex].paymentDueDate>>)
                 ELSE LET loanIndex == FindIndex(us[userIndex].loans,
                                LAMBDA l : l.id = accountId)
                          updatedUser == ExtendLoan(us[userIndex], loanIndex)
                      IN  IF loanIndex = 0 THEN Fail("LoanNotFound")
                          ELSE Result(TRUE, type, [us EXCEPT ![userIndex] = updatedUser],
                                      <<updatedUser>>,
                                      <<updatedUser.loans[loanIndex].paymentDueDate>>)

\* requestPaymentExtension: what the call returns (ok, msg, newDueDate) and
\* what it leaves behind: users is the content of the users collection after
\* the call (updatedUser is a shallow copy, so a due date written to it is
\* written to the card or loan object of the collection), user the record
\* passed to setCurrentUser (<<>> if none)
ExtensionOutcome(cu, us, accountId, type, approved) ==
    LET Result(ok, msg, newUsers, user, newDueDate) ==
            [ok |-> ok, msg |-> msg, users |-> newUsers, user |-> user,
             newDueDate |-> newDueDate]
        Fail(msg) == Result(FALSE, msg, us, <<>>, <<>>)
    IN  IF cu = <<>> THEN Fail("NotLoggedIn")
        ELSE LET userIndex == UserIndex(us, cu[1])
             IN  IF userIndex = 0 THEN Fail("UserNotFound")
                 ELSE IF ~approved THEN Fail("Rejected")
                 ELSE IF type = "card"
                 THEN LET cardIndex == FindIndex(us[userIndex].cards,
                                LAMBDA c : Last4(c.cardNumber) = accountId)
                          updatedUser == ExtendCard(us[userIndex], cardIndex)
                      IN  IF cardIndex = 0 THEN Fail("CardNotFound")
                          ELSE Result(TRUE, type, [us EXCEPT ![userIndex] = updatedUser],
                                      <<updatedUser>>,
                                      <<updatedUser.cards[cardIndex].paymentDueDate>>)
                 ELSE IF type = "loan"
                 THEN LET loanIndex == FindIndex(us[userIndex].loans,
                                LAMBDA l : l.id = accountId)
                          updatedUser == ExtendLoan(us[userIndex], loanIndex)
                      IN  IF loanIndex = 0 THEN Fail("LoanNotFound")
                          ELSE Result(TRUE, type, [us EXCEPT ![userIndex] = updatedUser],
                                      <<updatedUser>>,
                                      <<updatedUser.loans[loanIndex].paymentDueDate>>)
                 ELSE Fail("InvalidType")

\* requestPaymentExtension(accountId, type)
RequestPaymentExtension ==
    /\ last = Idle
    /\ \E accountId \in AccountIds(users, currentUser), type \in AccountTypes, approved \in BOOLEAN :
        LET out == ExtensionOutcome(currentUser, users, accountId, type, approved)
        IN  /\ out.ok => nOps < MaxOps
            /\ users' = out.users
            /\ currentUser' = IF out.ok THEN out.user ELSE currentUser
            /\ last' = Call("requestPaymentExtension", <<accountId, type>>,
                            out.ok, out.msg, out.newDueDate)
            /\ nOps' = IF out.ok THEN nOps + 1 ELSE nOps
            /\ UNCHANGED <<transactions, today, gen, localStorage, now>>

\* the page is loaded again: the component is constructed from what is saved
Reload ==
    /\ last = Idle
    /\ users' = initialUsers(localStorage, today)
    /\ transactions' = initialTransactions(localStorage)
    /\ currentUser' = <<>>
    /\ last' = Mount
    /\ UNCHANGED <<today, gen, localStorage, now, nOps>>

\* the calls that, when they succeed, call setUsers, and setTransactions
SetUsersOps == {"registerUser", "transferMoney", "addCardToUser", "addLoanToUser",
                "requestPaymentExtension"}
SetTransactionsOps == {"transferMoney", "addLoanToUser"}

\* the call returns to the presentation layer and the component re-renders;
\* each of the two effects runs after the first render and after a render
\* with a new value of its collection, and saves the collection
Return ==
    /\ last # Idle
    /\ last' = Idle
    /\ localStorage' =
          [users |-> IF last = Mount \/ (last.ok /\ last.op \in SetUsersOps)
                     THEN <<stringifyUsers(users)>>
                     ELSE localStorage.users,
           transactions |-> IF last = Mount \/ (last.ok /\ last.op \in SetTransactionsOps)
                            THEN <<stringifyTransactions(transactions)>>
                            ELSE localStorage.transactions]
    /\ UNCHANGED <<users, transactions, currentUser, today, gen, now, nOps>>

Next ==
    \/ Return
    \/ Reload
    \/ Login
    \/ Logout
    \/ RegisterUser
    \/ TransferMoney
    \/ AddCardToUser
    \/ AddLoanToUser
    \/ RequestPaymentExtension

Spec == Init /\ [][Next]_vars

\* ------------------------------------------------------------------------
\* Properties
\* ------------------------------------------------------------------------

\* positions of a sequence
Indices(seq) == DOMAIN seq

\* user u is matched by identifier rid through its full display name
FullNameMatch(u, rid) == toLowerCase(u.name) = toLowerCase(rid)
\* ... through its first-name token
FirstNameMatch(u, rid) == toLowerCase(FirstToken(u.name)) = toLowerCase(rid)
\* ... through its savings account number
AccountMatch(u, rid) == u.savingsAccountNumber = rid
Matches(u, rid) == FullNameMatch(u, rid) \/ FirstNameMatch(u, rid) \/ AccountMatch(u, rid)

\* the positions of the users with the id of the active user
ActiveIndices == {i \in Indices(users) : currentUser # <<>> /\ users[i].id = currentUser[1].id}

\* the position of the first user that rid matches, as a set (empty: none)
Resolved(rid) ==
    {i \in Indices(users) : Matches(users[i], rid) /\ \A j \in 1..(i - 1) : ~Matches(users[j], rid)}

\* the preconditions of a transfer of amount to rid all hold
TransferPre(rid, amount) ==
    /\ currentUser # <<>>
    /\ amount > 0
    /\ \E s \in ActiveIndices, r \in Resolved(rid) :
          /\ users[r].id # users[s].id
          /\ users[s].balance >= amount

\* C1: a transferMoney call with an active user, amount > 0, a recipient other
\* than the sender and a sender balance >= amount succeeds, takes exactly
\* amount from the sender, gives exactly amount to the recipient, leaves every
\* other balance alone and appends exactly two transactions, a debit of the
\* sender and a credit of the recipient, with that amount and one timestamp.
C1_TransferMovesAmount ==
    [][(last'.op = "transferMoney" /\ TransferPre(last'.args[1], last'.args[2])) =>
        LET amount == last'.args[2]
            n == Len(transactions)
        IN  /\ last'.ok
            /\ Len(users') = Len(users)
            /\ \E s \in ActiveIndices, r \in Resolved(last'.args[1]) :
                  /\ users'[s].balance = users[s].balance - amount
                  /\ users'[r].balance = users[r].balance + amount
                  /\ \A i \in Indices(users) \ {s, r} : users'[i].balance = users[i].balance
                  /\ Len(transactions') = n + 2
                  /\ SubSeq(transactions', 1, n) = transactions
                  /\ transactions'[n + 1].type = "debit"
                  /\ transactions'[n + 1].userId = users[s].id
                  /\ transactions'[n + 2].type = "credit"
                  /\ transactions'[n + 2].userId = users[r].id
                  /\ transactions'[n + 1].amount = amount
                  /\ transactions'[n + 2].amount = amount
                  /\ transactions'[n + 1].timestamp = transactions'[n + 2].timestamp
    ]_vars

\* a transfer has succeeded while a third user was in the store
C1_Witness ==
    /\ last.op = "transferMoney"
    /\ last.ok
    /\ Len(users) >= 3
    /\ Len(transactions) = Len(MOCK_TRANSACTIONS) + 2

\* C2: a transferMoney call that fails a precondition (no active user, amount
\* <= 0, recipient unresolved, recipient is the sender, sender balance below
\* amount) returns success = false and leaves users, transactions and the
\* active user unchanged.
C2_FailedTransferChangesNothing ==
    [][(last'.op = "transferMoney" /\ ~TransferPre(last'.args[1], last'.args[2])) =>
        /\ ~last'.ok
        /\ users' = users
        /\ transactions' = transactions
        /\ currentUser' = currentUser
    ]_vars

\* a transfer has been refused for insufficient funds
C2_Witness ==
    /\ last.op = "transferMoney"
    /\ ~last.ok
    /\ last.msg = "InsufficientFunds"

\* C3: when the identifier is the full display name of one user and the first
\* name of a different user, the transfer goes to the user matched by full
\* name, whatever their order in the store.
C3_FullNameWins ==
    [][(/\ last'.op = "transferMoney"
        /\ last'.ok
        /\ \E i, j \in Indices(users) :
              /\ i # j
              /\ FullNameMatch(users[i], last'.args[1])
              /\ FirstNameMatch(users[j], last'.args[1])
              /\ ~FullNameMatch(users[j], last'.args[1]))
       => \E i \in Indices(users) :
              /\ FullNameMatch(users[i], last'.args[1])
              /\ transactions'[Len(transactions')].userId = users[i].id
              /\ users'[i].balance = users[i].balance + last'.args[2]
    ]_vars

\* some user has the username, whatever the case of its letters
UsernameInUse(username) ==
    \E i \in Indices(users) : toLowerCase(users[i].username) = toLowerCase(username)

\* C4: registerUser with a username that equals an existing username up to
\* case returns false and leaves users, transactions and the active user
\* unchanged.
C4_TakenUsernameRefused ==
    [][(last'.op = "registerUser" /\ UsernameInUse(last'.args[2])) =>
        /\ ~last'.ok
        /\ users' = users
        /\ transactions' = transactions
        /\ currentUser' = currentUser
    ]_vars

\* a registration was refused for a username that differs from the stored
\* one in case only
C4_Witness ==
    /\ last.op = "registerUser"
    /\ ~last.ok
    /\ \E i \in Indices(users) :
          /\ users[i].username # last.args[2]
          /\ toLowerCase(users[i].username) = toLowerCase(last.args[2])

\* C5: registerUser with a username not in the store returns true, appends
\* one user with balance 1000, one card, no loan and id = (number of users
\* before) + 1, leaves the earlier users and the transactions unchanged and
\* makes the new user the active user.
C5_RegistrationAppendsUser ==
    [][(last'.op = "registerUser" /\ ~UsernameInUse(last'.args[2])) =>
        LET n == Len(users)
        IN  /\ last'.ok
            /\ Len(users') = n + 1
            /\ SubSeq(users', 1, n) = users
            /\ users'[n + 1].id = n + 1
            /\ users'[n + 1].balance = 100000
            /\ Len(users'[n + 1].cards) = 1
            /\ Len(users'[n + 1].loans) = 0
            /\ users'[n + 1].name = last'.args[1]
            /\ users'[n + 1].username = last'.args[2]
            /\ users'[n + 1].pin = last'.args[3]
            /\ transactions' = transactions
            /\ currentUser' = <<users'[n + 1]>>
    ]_vars

\* a registration has succeeded
C5_Witness ==
    /\ last.op = "registerUser"
    /\ last.ok
    /\ Len(users) = Len(MOCK_USERS(today)) + 1
    /\ currentUser = <<users[Len(users)]>>

\* C6: addLoanToUser is all-or-nothing. On approval the active user gains
\* exactly one loan, with remainingBalance = loanAmount and status Active,
\* the user's balance grows by exactly loanAmount and exactly one credit
\* transaction of loanAmount, category Income, owned by that user is
\* appended; otherwise users, transactions and the active user are unchanged.
C6_LoanAllOrNothing ==
    [][last'.op = "addLoanToUser" =>
        IF last'.ok
        THEN \E i \in ActiveIndices :
                LET loanAmount == last'.args[1]
                    old == users[i]
                    new == users'[i]
                    k == Len(old.loans)
                    n == Len(transactions)
                IN  /\ Len(users') = Len(users)
                    /\ \A j \in Indices(users) \ {i} : users'[j] = users[j]
                    /\ Len(new.loans) = k + 1
                    /\ SubSeq(new.loans, 1, k) = old.loans
                    /\ new.loans[k + 1].remainingBalance = loanAmount
                    /\ new.loans[k + 1].status = "Active"
                    /\ new.balance = old.balance + loanAmount
                    /\ new.cards = old.cards
                    /\ Len(transactions') = n + 1
                    /\ SubSeq(transactions', 1, n) = transactions
                    /\ transactions'[n + 1].type = "credit"
                    /\ transactions'[n + 1].amount = loanAmount
                    /\ transactions'[n + 1].category = "Income"
                    /\ transactions'[n + 1].userId = old.id
        ELSE /\ users' = users
             /\ transactions' = transactions
             /\ currentUser' = currentUser
    ]_vars

\* a loan has been approved and disbursed
C6_Witness ==
    /\ last.op = "addLoanToUser"
    /\ last.ok
    /\ transactions[Len(transactions)].category = "Income"
    /\ Len(transactions) > Len(MOCK_TRANSACTIONS)

\* C7: addCardToUser on approval appends exactly one card at the end of the
\* active user's cards and changes nothing else in users or transactions; on
\* rejection, or with no active user, it returns success = false and changes
\* nothing.
C7_CardAppendedOnly ==
    [][last'.op = "addCardToUser" =>
        /\ (currentUser = <<>> => ~last'.ok)
        /\ IF last'.ok
           THEN /\ \E i \in ActiveIndices :
                     users' = [users EXCEPT ![i].cards = Append(@, last'.payload[1])]
                /\ transactions' = transactions
           ELSE /\ users' = users
                /\ transactions' = transactions
                /\ currentUser' = currentUser
    ]_vars

\* a card has been approved for a user that already held one
C7_Witness ==
    /\ last.op = "addCardToUser"
    /\ last.ok
    /\ \E i \in ActiveIndices :
          /\ Len(users[i].cards) >= 2
          /\ users[i].cards[Len(users[i].cards)] = last.payload[1]

\* the number of the day of a calendar date (Julian day number)
DayNumber(dt) ==
    LET m == dt.month + 1
        a == (14 - m) \div 12
        y == dt.year + 4800 - a
        mm == m + 12 * a - 3
    IN  dt.date + ((153 * mm + 2) \div 5) + 365 * y + (y \div 4) - (y \div 100)
            + (y \div 400) - 32045

\* dt is a date of the calendar: a month of the year and a day of that month
ValidDate(dt) ==
    /\ dt.month \in 0..11
    /\ dt.date >= 1
    /\ DayNumber(dt) <
          DayNumber(IF dt.month = 11
                    THEN [year |-> dt.year + 1, month |-> 0, date |-> 1]
                    ELSE [year |-> dt.year, month |-> dt.month + 1, date |-> 1])

\* C8: an approved requestPaymentExtension with a matching card (last 4
\* digits) or loan (id) of the active user sets that due date to exactly 14
\* calendar days after the previous one, also across the end of a month, and
\* returns it; nothing else in users changes and no transaction is appended.
C8_ExtensionAddsFourteenDays ==
    [][(last'.op = "requestPaymentExtension" /\ last'.ok) =>
        \E i \in ActiveIndices :
            LET accountId == last'.args[1]
                type == last'.args[2]
                newDueDate == last'.payload[1]
            IN  /\ transactions' = transactions
                /\ type \in {"card", "loan"}
                /\ ValidDate(newDueDate)
                /\ type = "card" =>
                      \E k \in Indices(users[i].cards) :
                          /\ Last4(users[i].cards[k].cardNumber) = accountId
                          /\ DayNumber(newDueDate) =
                                DayNumber(users[i].cards[k].paymentDueDate) + 14
                          /\ users' = [users EXCEPT ![i].cards[k].paymentDueDate = newDueDate]
                /\ type = "loan" =>
                      \E k \in Indices(users[i].loans) :
                          /\ users[i].loans[k].id = accountId
                          /\ DayNumber(newDueDate) =
                                DayNumber(users[i].loans[k].paymentDueDate) + 14
                          /\ users' = [users EXCEPT ![i].loans[k].paymentDueDate = newDueDate]
    ]_vars

\* an extension has moved a due date into the following month
C8_Witness ==
    /\ last.op = "requestPaymentExtension"
    /\ last.ok
    /\ last.payload[1].date <= 14

\* C9: no two transactions in the store have the same id.
C9_TransactionIdsUnique ==
    \A i, j \in Indices(transactions) :
        i # j => transactions[i].id # transactions[j].id

\* the loans in the store, each with the position of its owner and its own
AllLoans == UNION {{<<i, k>> : k \in Indices(users[i].loans)} : i \in Indices(users)}

\* s begins with the characters of prefix
StartsWith(s, prefix) == Len(s) >= Len(prefix) /\ SubSeq(s, 1, Len(prefix)) = prefix

\* C10: no two loans in the store share an id, and the id of every loan
\* embeds the id of the user that owns it.
C10_LoanIdsUnique ==
    /\ \A p, q \in AllLoans :
          p # q => users[p[1]].loans[p[2]].id # users[q[1]].loans[q[2]].id
    /\ \A p \in AllLoans :
          StartsWith(users[p[1]].loans[p[2]].id,
                     <<"l","o","a","n","-">> \o NumStr(users[p[1]].id) \o <<"-">>)

\* C11: transactions is append-only: its value before a step is a prefix of
\* its value after the step, and its length changes only by a successful
\* transfer (two more) or an approved loan (one more).
C11_TransactionsAppendOnly ==
    [][LET n == Len(transactions)
           m == Len(transactions')
       IN  /\ \/ transactions' = transactions
               \/ /\ m > n
                  /\ SubSeq(transactions', 1, n) = transactions
                  /\ last'.ok
                  /\ last'.op \in {"transferMoney", "addLoanToUser"}
           /\ (last'.op = "transferMoney" /\ last'.ok) => m = n + 2
           /\ (last'.op = "addLoanToUser" /\ last'.ok) => m = n + 1
    ]_vars

\* a transfer and a loan have both been recorded after the seed transactions
C11_Witness ==
    /\ Len(transactions) = Len(MOCK_TRANSACTIONS) + 3
    /\ SubSeq(transactions, 1, Len(MOCK_TRANSACTIONS)) = MOCK_TRANSACTIONS
    /\ \E k \in Indices(transactions) : transactions[k].category = "Transfers"
    /\ \E k \in Indices(transactions) : transactions[k].description = <<"Loan Disbursement">>

SameIgnoringCase(a, b) ==
    /\ Len(a) = Len(b)
    /\ \A i \in DOMAIN a :
          \/ a[i] = b[i]
          \/ \E k \in DOMAIN UpperChars : {a[i], b[i]} = {UpperChars[k], LowerChars[k]}

\* the positions of the users that username and pin identify
LoginMatches(username, pin) ==
    {i \in Indices(users) :
        SameIgnoringCase(users[i].username, username) /\ users[i].pin = pin}

\* C13: login(username, pin) returns true exactly when some user has that
\* username up to case and exactly that pin; then the first such user becomes
\* the active user, otherwise the active user stays as it was; users and
\* transactions are unchanged either way.
C13_LoginMatchesUsernameAndPin ==
    [][last'.op = "login" =>
        LET M == LoginMatches(last'.args[1], last'.args[2])
        IN  /\ last'.ok <=> M # {}
            /\ last'.ok =>
                  \E i \in M : (\A j \in M : i <= j) /\ currentUser' = <<users[i]>>
            /\ ~last'.ok => currentUser' = currentUser
            /\ users' = users
            /\ transactions' = transactions
    ]_vars

\* a login has succeeded with a username written in another case than the
\* stored one
C13_Witness ==
    /\ last.op = "login"
    /\ last.ok
    /\ currentUser # <<>>
    /\ currentUser[1].username # last.args[1]
    /\ currentUser[1].pin = last.args[2]

\* the monthly rate interestRate/100/12 as a fraction p/q in lowest terms
RateNum(rate) == rate \div Gcd(rate, 120000)
RateDen(rate) == 120000 \div Gcd(rate, 120000)

\* |x|
Abs(x) == IF x < 0 THEN 0 - x ELSE x

MutatingOps == {"registerUser", "transferMoney", "addCardToUser", "addLoanToUser",
                "requestPaymentExtension"}

\* C15: every mutating operation (registerUser, transferMoney, addCardToUser,
\* addLoanToUser, requestPaymentExtension) returns a structured result with a
\* message, on failure too; none returns a bare value or throws.
C15_StructuredResults ==
    last.op \in MutatingOps => last.msg \notin {"", "TypeError"}

\* C15 as amended: transferMoney, addCardToUser, addLoanToUser and
\* requestPaymentExtension always return a structured result with a message
\* and never throw; registerUser returns a bare boolean without a message.
C15_StructuredResultsButRegister ==
    /\ last.op \in MutatingOps \ {"registerUser"} => last.msg \notin {"", "TypeError"}
    /\ last.op = "registerUser" => last.msg = "" /\ last.payload = <<>>

\* a transfer to an unknown contact has failed with its message
C15_Witness ==
    /\ last.op = "transferMoney"
    /\ ~last.ok
    /\ last.msg = "NotFound"

\* C16: while an active user is set, exactly one record of users has its id
\* and that record equals the active-user reference field for field.
C16_SessionMatchesStore ==
    currentUser # <<>> =>
        /\ Cardinality(ActiveIndices) = 1
        /\ \A i \in ActiveIndices : users[i] = currentUser[1]

\* the active user has sent money and then had a due date extended: balance
\* and due date of the session copy are those of the store
C16_Witness ==
    /\ last.op = "requestPaymentExtension"
    /\ last.ok
    /\ currentUser # <<>>
    /\ \E k \in Indices(transactions) :
          /\ transactions[k].category = "Transfers"
          /\ transactions[k].type = "debit"
          /\ transactions[k].userId = currentUser[1].id
    /\ \E i \in ActiveIndices :
          /\ users[i].balance = currentUser[1].balance
          /\ users[i].cards = currentUser[1].cards
          /\ users[i].loans = currentUser[1].loans

\* the sum of the cash balances of the users us
RECURSIVE TotalBalance(_)
TotalBalance(us) ==
    IF Len(us) = 0 THEN 0
    ELSE TotalBalance(SubSeq(us, 1, Len(us) - 1)) + us[Len(us)].balance

\* the sum of the principals that the loan disbursements in txs record
RECURSIVE TotalDisbursed(_)
TotalDisbursed(txs) ==
    IF Len(txs) = 0 THEN 0
    ELSE TotalDisbursed(SubSeq(txs, 1, Len(txs) - 1)) +
         (IF txs[Len(txs)].description = <<"Loan Disbursement">>
          THEN txs[Len(txs)].amount ELSE 0)

\* C17: the sum of all cash balances changes only by +1000 on a successful
\* registerUser and by +loanAmount on an approved addLoanToUser; every other
\* step, every transferMoney call among them, leaves it unchanged. So the
\* total is always the seed total plus 1000 for each registered user plus the
\* principals of the approved loans.
C17_MoneyConserved ==
    [][/\ users' = users =>
            ~(last'.ok /\ last'.op \in {"registerUser", "addLoanToUser"})
       /\ users' # users =>
            /\ TotalBalance(users') - TotalBalance(users) =
                  IF last'.op = "registerUser" /\ last'.ok THEN 100000
                  ELSE IF last'.op = "addLoanToUser" /\ last'.ok THEN last'.args[1]
                  ELSE 0
            /\ TotalBalance(users') =
                  TotalBalance(MOCK_USERS(today))
                  + 100000 * (Len(users') - Len(MOCK_USERS(today)))
                  + TotalDisbursed(transactions')
    ]_vars

\* a transfer has moved money between two users while the total is no
\* longer the seed total
C17_Witness ==
    /\ last.op = "transferMoney"
    /\ last.ok
    /\ TotalBalance(users) # TotalBalance(MOCK_USERS(today))
    /\ \E i \in Indices(MOCK_USERS(today)) :
          users[i].balance = MOCK_USERS(today)[i].balance + last.args[2]

\* C18: no cash balance is ever negative, whatever the arguments of the
\* calls (any transfer amount, any loanAmount and loanTerm).
C18_BalancesNonNegative ==
    \A i \in Indices(users) : users[i].balance >= 0

\* C19: users never shrinks and no record changes its id, the user at
\* position i (counted from 1) has id i, so ids are unique, and the lookup
\* of the active user by id always finds it.
C19_UserIdsArePositions ==
    [][/\ Len(users') >= Len(users)
       /\ \A i \in Indices(users) : users'[i].id = users[i].id
       /\ \A i \in Indices(users') : users'[i].id = i
       /\ \A i, j \in Indices(users') : i # j => users'[i].id # users'[j].id
       /\ currentUser' # <<>> => UserIndex(users', currentUser'[1]) # 0
       /\ last'.msg \notin {"TypeError", "UserNotFound"}
    ]_vars

\* two users have registered one after the other and stand behind the seed
\* users; the second is the active user
C19_Witness ==
    /\ last.op = "registerUser"
    /\ last.ok
    /\ Len(users) = Len(MOCK_USERS(today)) + 2
    /\ users[Len(users)].id = Len(users)
    /\ users[Len(users) - 1].id = Len(users) - 1
    /\ currentUser # <<>>
    /\ UserIndex(users, currentUser[1]) = Len(users)

\* the message of a transferMoney(rid, amount) call, check by check
FirstFailingCheck(rid, amount) ==
    IF currentUser = <<>> THEN "NotLoggedIn"
    ELSE IF amount <= 0 THEN "NotPositive"
    ELSE IF Resolved(rid) = {} THEN "NotFound"
    ELSE IF Resolved(rid) \subseteq ActiveIndices THEN "Self"
    ELSE IF \E s \in ActiveIndices : users[s].balance < amount THEN "InsufficientFunds"
    ELSE "Success"

\* C20: transferMoney reports the first failing check in the order: not
\* logged in, amount <= 0, recipient not found, self-transfer, insufficient
\* funds. A non-positive amount is reported even when the recipient does not
\* exist, and a self-transfer even when the balance is below the amount.
C20_FirstFailingCheck ==
    [][last'.op = "transferMoney" =>
        /\ last'.msg = FirstFailingCheck(last'.args[1], last'.args[2])
        /\ last'.ok <=> last'.msg = "Success"
    ]_vars

\* a transfer to oneself of more than one's balance has been refused as a
\* self-transfer
C20_Witness ==
    /\ last.op = "transferMoney"
    /\ last.msg = "Self"
    /\ currentUser # <<>>
    /\ currentUser[1].balance < last.args[2]

\* a transfer of a non-positive amount to an unknown contact has been refused
\* for its amount
C20_WitnessNotPositive ==
    /\ last.op = "transferMoney"
    /\ last.msg = "NotPositive"
    /\ Resolved(last.args[1]) = {}

\* ------------------------------------------------------------------------
\* generateMockCardTransactions(card), followed step by step. Amounts are in
\* cents, instants in minutes since 1 Jan 1970 00:00 UTC.
\* ------------------------------------------------------------------------
MAX_PURCHASES == 25
BALANCE_FLOOR == 1000
AMOUNT_CAP == 15000
AMOUNT_BASE == 500
MONTH_MINUTES == 43200
DAY_MINUTES == 1440

\* Math.random(): the draw that follows the draw x/RandomStates in the
\* stream with increment c
NextRandom(x, c) == (5 * x + c) % RandomStates

\* Object.keys(merchantsByCategory)
categories == <<"Groceries", "Transport", "Entertainment", "Shopping", "Food", "Bills">>

merchantsByCategory ==
    [c \in {categories[k] : k \in DOMAIN categories} |->
        CASE c = "Groceries" -> <<"Whole Foods", "SuperMart", "Target">>
          [] c = "Transport" -> <<"Uber", "Shell Gas", "Metro">>
          [] c = "Entertainment" -> <<"Netflix", "Spotify", "Movieplex">>
          [] c = "Shopping" -> <<"Amazon", "Best Buy", "Apple Store">>
          [] c = "Food" -> <<"Starbucks", "The Daily Grind", "Pizza Palace">>
          [] c = "Bills" -> <<"AT&T", "Con Edison", "Geico">>]

\* the calendar date of the day that comes days after 1 Jan 1970
DateFromDays(days) ==
    LET z == days + 719468
        era == z \div 146097
        doe == z - era * 146097
        yoe == (doe - (doe \div 1460) + (doe \div 36524) - (doe \div 146096)) \div 365
        doy == doe - (365 * yoe + (yoe \div 4) - (yoe \div 100))
        mp == (5 * doy + 2) \div 153
        m == IF mp < 10 THEN mp + 3 ELSE mp - 9
    IN  [year |-> yoe + era * 400 + (IF m <= 2 THEN 1 ELSE 0),
         month |-> m - 1,
         date |-> doy - ((153 * mp + 2) \div 5) + 1]

\* Date.prototype.toISOString: the calendar date and time of day of instant t
toISOString(t) ==
    [date |-> DateFromDays(t \div DAY_MINUTES),
     hour |-> (t % DAY_MINUTES) \div 60,
     minute |-> t % 60]

\* new Date(iso).getTime(): the instant an ISO string stands for
getTime(iso) ==
    (DayNumber(iso.date) - DayNumber([year |-> 1970, month |-> 0, date |-> 1])) * DAY_MINUTES
        + iso.hour * 60 + iso.minute

\* an amount drawn against the whole remaining balance
PurchaseAmount_NoFraction(usedBalance, x) ==
    LET cap == IF usedBalance < AMOUNT_CAP THEN usedBalance ELSE AMOUNT_CAP
    IN  Round(x * cap, RandomStates) + AMOUNT_BASE

\* parseFloat((Math.random() * Math.min(usedBalance * 0.2, 150) + 5).toFixed(2))
\* for the draw x/RandomStates
PurchaseAmount(usedBalance, x) ==
    LET cap5 == IF usedBalance < 5 * AMOUNT_CAP THEN usedBalance ELSE 5 * AMOUNT_CAP
    IN  Round(x * cap5, 5 * RandomStates) + AMOUNT_BASE

\* new Date(today.getTime() - Math.random() * 30 * 24 * 60 * 60 * 1000) for
\* the draw x/RandomStates: a fractional time value is truncated
TransactionDate(todayTime, x) ==
    todayTime - ((x * MONTH_MINUTES + RandomStates - 1) \div RandomStates)

\* the purchase pushed by iteration i; x1..x4 are its four draws in order
Purchase(card, i, usedBalance, todayTime, x1, x2, x3, x4) ==
    LET category == categories[((x3 * Len(categories)) \div RandomStates) + 1]
        merchants == merchantsByCategory[category]
        merchant == merchants[((x4 * Len(merchants)) \div RandomStates) + 1]
    IN  [id |-> <<"tx-card-">> \o Last4(card.cardNumber) \o <<"-">> \o NumStr(i),
         userId |-> 0, type |-> "debit",
         amount |-> PurchaseAmount(usedBalance, x1),
         description |-> merchant,
         timestamp |-> toISOString(TransactionDate(todayTime, x2)),
         partyName |-> "Merchant", category |-> category,
         cardId |-> card.cardNumber]

\* the comparator of the sort: negative if a comes first
CompareByTimestamp(a, b) == getTime(b.timestamp) - getTime(a.timestamp)

\* Array.prototype.sort with that comparator (the sort is stable): place[j] is
\* the index the element at j is moved to
SortByTimestamp(txs) ==
    LET rank == [j \in DOMAIN txs |->
                    1 + Cardinality({k \in DOMAIN txs : CompareByTimestamp(txs[k], txs[j]) < 0})
                      + Cardinality({k \in 1..(j - 1) : CompareByTimestamp(txs[k], txs[j]) = 0})]
    IN  CHOOSE sorted \in {[p \in DOMAIN txs |-> txs[CHOOSE j \in DOMAIN txs : place[j] = p]] :
                              place \in {rank}} : TRUE

\* card.creditBalance as generateMockCard() draws it: 0 to 80% of the limit
CreditBalances == {0, 999, 1000, 1001, 5000, 400000, 1599999}

\* the increments of the streams of draws followed
RandomIncrements == {1, 3}

\* the instant of new Date(): 10:30 on the 15th of the month of today
TodayTime(td) ==
    getTime([date |-> [year |-> td.year, month |-> td.month, date |-> 15],
             hour |-> 10, minute |-> 30])

\* generateMockCardTransactions(card) has been entered: lines 329-331 done
GenInit ==
    /\ today \in Todays
    /\ localStorage = [users |-> <<>>, transactions |-> <<>>]
    /\ users = initialUsers(localStorage, today)
    /\ transactions = initialTransactions(localStorage)
    /\ currentUser = <<>>
    /\ now = 0
    /\ last = Mount
    /\ nOps = 0
    /\ \E creditBalance \in CreditBalances, x \in 0..(RandomStates - 1), c \in RandomIncrements :
          gen = [pc |-> "loop",
                 card |-> [cardNumber |-> MockCard("Visa", "0", today).cardNumber,
                           creditBalance |-> creditBalance],
                 random |-> x, increment |-> c,
                 i |-> 0, usedBalance |-> creditBalance,
                 transactions |-> <<>>, result |-> <<>>]

\* one pass through the body of the for loop
GenIterate ==
    /\ gen.pc = "loop"
    /\ gen.i < MAX_PURCHASES
    /\ ~(gen.usedBalance < BALANCE_FLOOR)
    /\ LET x1 == gen.random
           x2 == NextRandom(x1, gen.increment)
           x3 == NextRandom(x2, gen.increment)
           x4 == NextRandom(x3, gen.increment)
       IN  \E tx \in {Purchase(gen.card, gen.i, gen.usedBalance, TodayTime(today), x1, x2, x3, x4)} :
             gen' = [gen EXCEPT !.usedBalance = @ - tx.amount,
                                !.transactions = Append(@, tx),
                                !.i = @ + 1,
                                !.random = NextRandom(x4, gen.increment)]
    /\ UNCHANGED <<users, transactions, currentUser, today, now, last, nOps, localStorage>>

\* the loop is left, by the break or by its condition, and the sorted list
\* is returned
GenReturn ==
    /\ gen.pc = "loop"
    /\ gen.i >= MAX_PURCHASES \/ gen.usedBalance < BALANCE_FLOOR
    /\ gen' = [gen EXCEPT !.pc = "done", !.result = SortByTimestamp(gen.transactions)]
    /\ UNCHANGED <<users, transactions, currentUser, today, now, last, nOps, localStorage>>

GenNext ==
    \/ GenIterate
    \/ GenReturn

\* the call runs to completion: it is synchronous code without a wait
GenSpec == GenInit /\ [][GenNext]_vars /\ WF_vars(GenNext)

\* the purchases of txs are ordered by timestamp, most recent first
SortedDescending(txs) ==
    \A p, q \in DOMAIN txs : p < q => getTime(txs[p].timestamp) >= getTime(txs[q].timestamp)

\* C23: generateMockCardTransactions ends after at most 25 passes of its
\* loop, makes no purchase once the remaining balance is below 10, never
\* takes the remaining balance below zero, and returns the purchases it made
\* ordered by timestamp descending.
C23_GenerationBoundedAndSorted ==
    /\ [][/\ gen'.i <= MAX_PURCHASES
          /\ Len(gen'.transactions) <= MAX_PURCHASES
          /\ gen.usedBalance < BALANCE_FLOOR =>
                gen'.pc = "done" /\ gen'.transactions = gen.transactions
          /\ gen.usedBalance >= 0 => gen'.usedBalance >= 0
          /\ gen'.pc = "done" =>
                /\ SortedDescending(gen'.result)
                /\ Len(gen'.result) = Len(gen.transactions)
                /\ {gen'.result[p] : p \in DOMAIN gen'.result}
                      = {gen.transactions[p] : p \in DOMAIN gen.transactions}
         ]_vars
    /\ <>(gen.pc = "done")

\* a call has returned after the break, with purchases that were not made in
\* the order of their timestamps
C23_Witness ==
    /\ gen.pc = "done"
    /\ gen.i < MAX_PURCHASES
    /\ gen.usedBalance < BALANCE_FLOOR
    /\ Len(gen.result) >= 3
    /\ gen.result # gen.transactions

\* a call has returned after 25 purchases
C23_WitnessFullRun ==
    /\ gen.pc = "done"
    /\ gen.i = MAX_PURCHASES
    /\ Len(gen.result) = MAX_PURCHASES
    /\ gen.usedBalance >= BALANCE_FLOOR

\* C21: a requestPaymentExtension call that returns success = false (no
\* active user, user not found, rejection, no matching card, no matching
\* loan, invalid type) leaves users, with every due date, transactions and
\* the active user unchanged.
C21_FailedExtensionChangesNothing ==
    [][(last'.op = "requestPaymentExtension" /\ ~last'.ok) =>
        /\ users' = users
        /\ transactions' = transactions
        /\ currentUser' = currentUser
    ]_vars

\* an extension has been rejected by the draw for a card that the active
\* user holds
C21_Witness ==
    /\ last.op = "requestPaymentExtension"
    /\ ~last.ok
    /\ last.msg = "Rejected"
    /\ last.args[2] = "card"
    /\ \E i \in ActiveIndices : \E k \in Indices(users[i].cards) :
          Last4(users[i].cards[k].cardNumber) = last.args[1]

\* C22: requestPaymentExtension by a logged-in user with a type other than
\* 'card' or 'loan' fails with the 'Invalid account type' message, whatever
\* the approval draw, and changes no state.
C22_InvalidTypeMessage ==
    [][(/\ last'.op = "requestPaymentExtension"
        /\ currentUser # <<>>
        /\ last'.args[2] \notin {"card", "loan"}) =>
        /\ ~last'.ok
        /\ last'.msg = "InvalidType"
        /\ users' = users
        /\ transactions' = transactions
        /\ currentUser' = currentUser
    ]_vars

\* C22 as amended: requestPaymentExtension by a logged-in user with a type
\* other than 'card' or 'loan' always fails and changes no state; its message
\* is the 'Invalid account type' one, or the rejection one when the approval
\* draw, which comes first, rejects the request.
C22_InvalidTypeOrRejected ==
    [][(/\ last'.op = "requestPaymentExtension"
        /\ currentUser # <<>>
        /\ last'.args[2] \notin {"card", "loan"}) =>
        /\ ~last'.ok
        /\ last'.msg \in {"InvalidType", "Rejected"}
        /\ users' = users
        /\ transactions' = transactions
        /\ currentUser' = currentUser
    ]_vars

\* a logged-in user has asked for an extension with the id of one of their
\* loans and a type that is neither 'card' nor 'loan', and got the 'Invalid
\* account type' message
C22_Witness ==
    /\ last.op = "requestPaymentExtension"
    /\ last.msg = "InvalidType"
    /\ last.args[2] = "savings"
    /\ currentUser # <<>>
    /\ \E k \in Indices(currentUser[1].loans) : currentUser[1].loans[k].id = last.args[1]

====
